---- MODULE Spec2Model ----
(***************************************************************************)
(* WebXR-to-OSC bridge: the relay server (webxr_osc_server.js, kept as     *)
(* src/unnamed/part_001) and the capture client (src/app.js).              *)
(*                                                                         *)
(* The server's mutable globals are the fields of one record, so that the  *)
(* functions of the source are operators from a state to the next state    *)
(* and two runs of the server can be compared side by side.                *)
(***************************************************************************)
EXTENDS Integers, Sequences, FiniteSets, TLC

VARIABLES
  server,   \* the relay server's state (record of its globals)
  twin,     \* a second run of the relay server, for two-run comparisons
  client    \* the capture client's state (record of the globals of app.js)

vars == <<server, twin, client>>

(***************************************************************************)
(* Bounds of the model.                                                    *)
(***************************************************************************)
MaxPorts == 4        \* osc.UDPPort instances alive at once
MaxTimers == 2       \* pending setTimeout callbacks of the server
MaxErrors == 12      \* oscErrorCount stops growing here when only sends fail
MaxFaults == 2       \* and here in the runs where ports emit error events
MaxMessages == 1     \* oscMessageCount stops growing here
MaxClients == 1      \* WebSocket connections accepted in a run
MaxObservedFaults == 1   \* failures of the observed devices in a two-server run
MaxSockets == 2      \* WebSocket objects of the client alive at once
MaxAttempts == 3     \* the count of the client's connection attempts saturates here
TimeStep == 4        \* milliseconds between two instants of client time
Horizon == 40        \* milliseconds of client time followed while both samplers run
WindowEnd == 200     \* and when only the clock-driven sampler runs
MaxAngle == 720      \* angles of -MaxAngle to MaxAngle degrees are normalized

(***************************************************************************)
(* Configuration of the server.                                            *)
(***************************************************************************)
DeviceKeys == <<"HMD", "CONTROLLER0", "CONTROLLER1">>
Devices == {DeviceKeys[i] : i \in 1..Len(DeviceKeys)}
OSC_PORTS == [HMD |-> 7400, CONTROLLER0 |-> 7401, CONTROLLER1 |-> 7402]
StatKeys == {"hmd", "controller0", "controller1"}
ERROR_RECONNECT_DELAY == 5000
REINIT_DELAY == 1000
ERROR_LIMIT == 10
MAX_MESSAGE_SIZE == 512
MAX_PAYLOAD == 1024

(***************************************************************************)
(* Strings are sequences of one-character strings, so that startsWith and  *)
(* includes are computed as JavaScript computes them.                      *)
(***************************************************************************)
StartsWith(s, p) == Len(s) >= Len(p) /\ SubSeq(s, 1, Len(p)) = p
Includes(s, p) == \E i \in 1..(Len(s) - Len(p) + 1) : SubSeq(s, i, i + Len(p) - 1) = p

PrefixHmd == <<"/", "h", "m", "d">>
PrefixController == <<"/", "c", "o", "n", "t", "r", "o", "l", "l", "e", "r">>
PrefixController0 == PrefixController \o <<"0">>
PrefixController1 == PrefixController \o <<"1">>
WordController0 == SubSeq(PrefixController0, 2, Len(PrefixController0))
WordController1 == SubSeq(PrefixController1, 2, Len(PrefixController1))
PoseSuffix == <<"/", "p", "o", "s", "e">>

AddrHmd == PrefixHmd \o PoseSuffix
AddrController0 == PrefixController0 \o PoseSuffix
AddrController1 == PrefixController1 \o PoseSuffix
Addresses == {AddrHmd, AddrController0, AddrController1}

\* A JSON value as JSON.parse returns it: a finite number, a string, a
\* number too large for a double (1e999, read as Infinity), true, null; and
\* undefined, the value of a property that is absent.
Num(n) == [t |-> "number", s |-> <<>>, n |-> n]
Str(s) == [t |-> "string", s |-> s, n |-> 0]
Huge == [t |-> "infinity", s |-> <<>>, n |-> 0]
True == [t |-> "boolean", s |-> <<>>, n |-> 1]
Null == [t |-> "null", s |-> <<>>, n |-> 0]
Undefined == [t |-> "undefined", s |-> <<>>, n |-> 0]
HmdArgs == <<Num(0), Num(1), Num(0), Num(0), Num(0), Num(0)>>
ArgLists == {HmdArgs}

(***************************************************************************)
(* getDeviceTypeFromAddress                                                *)
(***************************************************************************)
getDeviceTypeByInclusion(address) ==
  IF Includes(address, SubSeq(PrefixHmd, 2, 4)) THEN "HMD"
  ELSE IF Includes(address, WordController0) THEN "CONTROLLER0"
  ELSE IF Includes(address, WordController1) THEN "CONTROLLER1"
  ELSE "HMD"

getDeviceTypeFromAddress(address) ==
  IF StartsWith(address, PrefixHmd) THEN "HMD"
  ELSE IF StartsWith(address, PrefixController0) THEN "CONTROLLER0"
  ELSE IF StartsWith(address, PrefixController1) THEN "CONTROLLER1"
  ELSE "HMD"

(***************************************************************************)
(* The state of the server when the module's top-level declarations have   *)
(* run and initOSCConnection() has not been called yet.                    *)
(*   ports[i]  an osc.UDPPort instance: the device its handlers close over *)
(*             and where it is in its life ("none": no such instance)      *)
(*   timers    the pending setTimeout callbacks, in the order they were    *)
(*             scheduled                                                    *)
(*   out       what the handler that has just run did: what its call of    *)
(*             sendOSC returned, whether it called udpPort.send, the       *)
(*             datagram that left, whether an exception left the handler   *)
(*             (thrown), and the warning or error it logged (log)          *)
(***************************************************************************)
NoPort == [dev |-> "HMD", st |-> "none"]
NoOut == [ret |-> "none", dev |-> "HMD", called |-> FALSE, dgram |-> <<>>,
          thrown |-> FALSE, log |-> "none"]

ServerStart ==
  [ phase            |-> "loading",
    oscUDPPorts      |-> [d \in Devices |-> 0],
    oscConnected     |-> [d \in Devices |-> FALSE],
    oscMessageCount  |-> 0,
    oscErrorCount    |-> 0,
    lastOSCError     |-> "null",
    messageStats     |-> [k \in StatKeys |-> 0],
    ports            |-> [i \in 1..MaxPorts |-> NoPort],
    timers           |-> <<>>,
    connectedClients |-> 0,
    wsSent           |-> 0,
    out              |-> NoOut ]

MinOf(set) == CHOOSE i \in set : \A j \in set : i <= j

FreeIds(S) == {i \in 1..MaxPorts : S.ports[i].st = "none"}
NewId(S) == CHOOSE i \in FreeIds(S) : \A j \in FreeIds(S) : i <= j
NullDevices(S) == {d \in Devices : S.oscUDPPorts[d] = 0}
Referenced(S, p) == \E d \in Devices : S.oscUDPPorts[d] = p

\* setTimeout(fn, delay): the callback joins the pending timers.
setTimeout(S, fn, dev, delay) ==
  [S EXCEPT !.timers = Append(@, [fn |-> fn, dev |-> dev, delay |-> delay])]

(***************************************************************************)
(* initOSCConnection: for each device without a port handle, create the    *)
(* port, register its handlers and call open(); openThrows are the devices *)
(* whose open() throws.                                                    *)
(***************************************************************************)
RECURSIVE initFrom(_, _, _)
initFrom(S, k, openThrows) ==
  IF k > Len(DeviceKeys) THEN S
  ELSE LET d == DeviceKeys[k] IN
       IF S.oscUDPPorts[d] # 0 THEN initFrom(S, k + 1, openThrows)
       ELSE LET id == NewId(S)
                S1 == [S EXCEPT
                         !.oscUDPPorts[d] = id,
                         !.ports[id] = [dev |-> d,
                                        st |-> IF d \in openThrows THEN "failed" ELSE "opening"],
                         !.oscConnected[d] = IF d \in openThrows THEN FALSE ELSE @]
            IN initFrom(S1, k + 1, openThrows)

initOSCConnection(S, openThrows) == initFrom(S, 1, openThrows)

\* udpPort.close(): closes a port that is open or opening; throws (caught by
\* every caller) on one already closed.
closePort(S, p) ==
  IF S.ports[p].st \in {"opening", "ready", "failed"}
  THEN [S EXCEPT !.ports[p].st = "closing"]
  ELSE S

(***************************************************************************)
(* reconnectOSC(deviceType)                                                *)
(***************************************************************************)
reconnectOSC(S, device) ==
  LET p == S.oscUDPPorts[device]
      S1 == IF p # 0
            THEN LET C == closePort(S, p) IN
                 [C EXCEPT !.oscUDPPorts[device] = 0,
                           !.ports[p] = IF C.ports[p].st = "closed" THEN NoPort ELSE @]
            ELSE S
      S2 == [S1 EXCEPT !.oscConnected[device] = FALSE]
  IN setTimeout(S2, "initOSCConnection", device, REINIT_DELAY)

(***************************************************************************)
(* The handlers initOSCConnection registers on a port; deviceType is the   *)
(* device of the closure, whatever port the device's handle names now.     *)
(***************************************************************************)
onReady(S, p) ==
  [S EXCEPT !.ports[p].st = "ready",
            !.oscConnected[S.ports[p].dev] = TRUE]

onError(S, p) ==
  LET d == S.ports[p].dev
      S1 == [S EXCEPT !.oscConnected[d] = FALSE,
                      !.oscErrorCount = @ + 1,
                      !.lastOSCError = "port",
                      !.ports[p].st = IF @ = "opening" THEN "failed" ELSE @]
  IN setTimeout(S1, "reconnectOSC", d, ERROR_RECONNECT_DELAY)

onClose(S, p) ==
  [S EXCEPT !.oscConnected[S.ports[p].dev] = FALSE,
            !.ports[p] = IF Referenced(S, p) THEN [@ EXCEPT !.st = "closed"] ELSE NoPort]

(***************************************************************************)
(* updateMessageStats                                                      *)
(***************************************************************************)
statKey(address) ==
  IF Includes(address, WordController0) THEN "controller0"
  ELSE IF Includes(address, WordController1) THEN "controller1"
  ELSE "hmd"

updateMessageStats(S, address) ==
  [S EXCEPT !.messageStats[statKey(address)] = @ + 1]

(***************************************************************************)
(* sendOSC(address, args); sendThrows: udpPort.send throws.                *)
(***************************************************************************)
\* parseFloat(v): v is turned into a string, and the longest prefix of it
\* that is a numeral is read, after leading white space: a sign, then
\* "Infinity" or a run of digits.  (The strings of the model have no
\* fraction and no exponent.)
DigitChars == <<"0", "1", "2", "3", "4", "5", "6", "7", "8", "9">>
DigitValue(c) == (CHOOSE d \in 1..10 : DigitChars[d] = c) - 1
WordInfinity == <<"I", "n", "f", "i", "n", "i", "t", "y">>

RECURSIVE trimStart(_)
trimStart(s) == IF s # <<>> /\ Head(s) = " " THEN trimStart(Tail(s)) ELSE s

RECURSIVE digitRun(_)
digitRun(s) ==
  IF s # <<>> /\ (\E d \in 1..10 : DigitChars[d] = Head(s))
  THEN <<Head(s)>> \o digitRun(Tail(s))
  ELSE <<>>

RECURSIVE digitsValue(_)
digitsValue(ds) ==
  IF ds = <<>> THEN 0
  ELSE 10 * digitsValue(SubSeq(ds, 1, Len(ds) - 1)) + DigitValue(ds[Len(ds)])

\* the numeral of a string, without its sign
numeral(v) ==
  LET u == trimStart(v.s)
  IN IF u # <<>> /\ Head(u) \in {"+", "-"} THEN Tail(u) ELSE u

parseFloatIsInfinite(v) ==
  \/ v.t = "infinity"
  \/ v.t = "string" /\ StartsWith(numeral(v), WordInfinity)

parseFloatIsNaN(v) ==
  CASE v.t = "number" -> FALSE
    [] v.t = "infinity" -> FALSE
    [] v.t = "string" -> digitRun(numeral(v)) = <<>> /\ ~StartsWith(numeral(v), WordInfinity)
    [] OTHER -> TRUE

parseFloat(v) ==
  CASE v.t = "number" -> v.n
    [] v.t = "string" ->
         LET u == trimStart(v.s)
             n == digitsValue(digitRun(numeral(v)))
         IN IF u # <<>> /\ Head(u) = "-" THEN 0 - n ELSE n
    [] OTHER -> 0
floatArg(v) == [type |-> "f", value |-> IF parseFloatIsNaN(v) THEN 0 ELSE parseFloat(v)]

notReadyHandleOnly(S, deviceType) == S.oscUDPPorts[deviceType] = 0

notReady(S, deviceType) ==
  ~S.oscConnected[deviceType] \/ S.oscUDPPorts[deviceType] = 0

anyError(S) == S.oscErrorCount > 0

tooManyErrors(S) == S.oscErrorCount > ERROR_LIMIT

oscMessageOfSix(address, args) ==
  [address |-> address,
   args |-> [i \in 1..(IF Len(args) < 6 THEN Len(args) ELSE 6) |-> floatArg(args[i])]]

oscMessage(address, args) ==
  [address |-> address,
   args |-> [i \in 1..Len(args) |-> floatArg(args[i])]]

sendFailed(S, deviceType) ==
  LET S1 == [S EXCEPT !.oscErrorCount = @ + 1,
                      !.lastOSCError = "send",
                      !.out = [ret |-> "false", dev |-> deviceType, called |-> TRUE,
                               dgram |-> <<>>, thrown |-> FALSE, log |-> "none"]]
  IN IF tooManyErrors(S1) THEN reconnectOSC(S1, deviceType) ELSE S1

sendOSC(S, address, args, sendThrows) ==
  LET deviceType == getDeviceTypeFromAddress(address)
      targetPort == OSC_PORTS[deviceType]
  IN IF notReady(S, deviceType)
     THEN [S EXCEPT !.out = [ret |-> "false", dev |-> deviceType, called |-> FALSE,
                             dgram |-> <<>>, thrown |-> FALSE, log |-> "none"]]
     ELSE IF sendThrows
     THEN sendFailed(S, deviceType)
     ELSE updateMessageStats(
            [S EXCEPT !.oscMessageCount = @ + 1,
                      !.out = [ret |-> "true", dev |-> deviceType, called |-> TRUE,
                               dgram |-> <<[port |-> targetPort,
                                            msg |-> oscMessage(address, args)]>>,
                               thrown |-> FALSE, log |-> "none"]],
            address)

(***************************************************************************)
(* handleOSCMessage(msg): msg is the parsed envelope.                      *)
(***************************************************************************)
\* the test of args.filter: !isNaN(num) && isFinite(num), num = parseFloat(arg)
isFiniteNumber(v) == ~parseFloatIsNaN(v) /\ ~parseFloatIsInfinite(v)

validArgs(args) == SelectSeq(args, isFiniteNumber)

\* msg.kind is "null" for JSON null, of which no property can be read,
\* "object" for an object, "primitive" for any other value; address and
\* args are its properties of these names (isArray: Array.isArray(args)).
handleOSCMessage(S, msg, sendThrows) ==
  IF msg.kind = "null" THEN [S EXCEPT !.out.thrown = TRUE]
  ELSE IF msg.address.t # "string" \/ msg.address.s = <<>>
  THEN [S EXCEPT !.out.log = "invalid address"]
  ELSE IF ~msg.isArray THEN [S EXCEPT !.out.log = "invalid args"]
  ELSE LET sent == sendOSC(S, msg.address.s, validArgs(msg.args), sendThrows)
       IN IF Len(validArgs(msg.args)) # Len(msg.args)
          THEN [sent EXCEPT !.out.log = "args filtered"]
          ELSE sent

\* ws.on('message'): raw is the frame as received, chars the length of its
\* text (msgString.length) and bytes its length on the wire; JSON.parse
\* throws when the text is not JSON.
wsMessageBody(S, raw, sendThrows) ==
  IF raw.chars > MAX_MESSAGE_SIZE THEN [S EXCEPT !.out.log = "oversized"]
  ELSE IF ~raw.json THEN [S EXCEPT !.out.thrown = TRUE]
  ELSE handleOSCMessage(S, raw.msg, sendThrows)

wsMessageNoCatch(S, raw, sendThrows) == wsMessageBody(S, raw, sendThrows)

wsMessage(S, raw, sendThrows) ==
  LET B == wsMessageBody(S, raw, sendThrows)
  IN IF B.out.thrown
     THEN [B EXCEPT !.out.thrown = FALSE, !.out.log = "processing error"]
     ELSE B

\* The WebSocket server reads a frame: one above maxPayload is not handed to
\* the message handler, and the connection is closed (1009).
wsFrame(S, raw, sendThrows) ==
  IF raw.bytes > MAX_PAYLOAD
  THEN [S EXCEPT !.connectedClients = IF @ - 1 > 0 THEN @ - 1 ELSE 0,
                 !.out.log = "payload too big"]
  ELSE wsMessage(S, raw, sendThrows)

Envelope(address, args) ==
  [bytes |-> 64, chars |-> 64, json |-> TRUE,
   msg |-> [kind |-> "object", address |-> Str(address), isArray |-> TRUE,
            args |-> args]]

Frames == {Envelope(a, args) : a \in Addresses, args \in ArgLists}

\* What a client may send: envelopes with addresses of every routing case
\* and with argument lists of every kind, envelopes that are malformed, and
\* frames of every size class.
AddrUnknown == <<"/", "u", "n", "k", "n", "o", "w", "n">> \o PoseSuffix
AddrController2 == PrefixController \o <<"2">> \o PoseSuffix
AddrNested == <<"/", "x">> \o AddrController0
RouterAddresses ==
  Addresses \cup {AddrUnknown, AddrController2, AddrNested, PrefixController}

CtrlArgs == HmdArgs \o <<Num(1)>>
FiveArgs == <<Num(1), Num(2), Num(3), Num(4), Num(5)>>
BadArgs == <<Num(1), Num(2), Str(<<"b", "a", "d">>), Num(4), Num(5), Num(6)>>
PrefixArgs == <<Num(1), Num(2), Str(<<"3", "a", "b", "c">>), Num(4), Num(5), Num(6)>>
MixedArgs == <<Num(1), True, Null, Str(<<" ", "-", "7">>), Huge, Num(2), Num(3), Num(4)>>
RouterArgLists == {HmdArgs, CtrlArgs, FiveArgs, BadArgs, PrefixArgs, MixedArgs}

NotJson == [Envelope(AddrHmd, HmdArgs) EXCEPT !.json = FALSE]
JsonNull ==
  [Envelope(AddrHmd, HmdArgs) EXCEPT
     !.msg = [kind |-> "null", address |-> Undefined, isArray |-> FALSE, args |-> <<>>]]
JsonPrimitive ==
  [Envelope(AddrHmd, HmdArgs) EXCEPT
     !.msg = [kind |-> "primitive", address |-> Undefined, isArray |-> FALSE, args |-> <<>>]]
MalformedFrames ==
  {NotJson, JsonNull, JsonPrimitive}
    \cup {[Envelope(AddrHmd, HmdArgs) EXCEPT !.msg.address = a] :
             a \in {Undefined, Num(7), Null, Str(<<>>)}}
    \cup {[Envelope(a, <<>>) EXCEPT !.msg.isArray = FALSE] : a \in Addresses}

\* sizes: (bytes, chars); a text of 400 characters can take 600 bytes
FrameSizes == {<<600, 600>>, <<600, 400>>, <<1100, 1100>>, <<1100, 500>>}
SizedFrames ==
  {[Envelope(AddrHmd, HmdArgs) EXCEPT !.bytes = z[1], !.chars = z[2]] : z \in FrameSizes}

RouterFrames ==
  {Envelope(a, HmdArgs) : a \in RouterAddresses}
    \cup {Envelope(a, args) : a \in {AddrHmd, AddrController0}, args \in RouterArgLists}
    \cup MalformedFrames \cup SizedFrames

(***************************************************************************)
(* Timers: a callback can run when no callback scheduled before it is due  *)
(* earlier or at the same time (an earlier one with a delay that is not    *)
(* longer).                                                                *)
(***************************************************************************)
CanFire(S, k) ==
  /\ k \in 1..Len(S.timers)
  /\ \A j \in 1..(k - 1) : S.timers[j].delay > S.timers[k].delay

RemoveAt(seq, k) == SubSeq(seq, 1, k - 1) \o SubSeq(seq, k + 1, Len(seq))

\* The process runs from the end of the start-up script until it exits:
\* while the listener's bind is pending ("binding"), with the listener bound
\* ("running") or not ("unbound"), and while it shuts down ("closing").
Alive(S) == S.phase \in {"binding", "running", "unbound", "closing"}

\* out holds what the handler that has just run returned and emitted.
Quiet(S) == [S EXCEPT !.out = NoOut]

(***************************************************************************)
(* The steps of one server: each is a handler of the source, run to its    *)
(* end.                                                                    *)
(***************************************************************************)
\* line 461: initOSCConnection() at startup.
startup(S, openThrows) ==
  [initOSCConnection(S, openThrows) EXCEPT !.phase = "running"]

readyEnabled(S, p) == Alive(S) /\ S.ports[p].st = "opening"
errorEnabled(S, p, limit) ==
  /\ Alive(S)
  /\ S.ports[p].st \in {"opening", "ready"}
  /\ S.oscErrorCount < limit
  /\ Len(S.timers) < MaxTimers
closeEnabled(S, p) == Alive(S) /\ S.ports[p].st = "closing"
\* A port that reconnectOSC has closed and dropped still emits 'error' for a
\* send that was under way (the socket reports a failed send after close()),
\* and its handlers are still registered.
lateErrorEnabled(S, p, limit) ==
  /\ Alive(S)
  /\ S.ports[p].st = "closing"
  /\ ~Referenced(S, p)
  /\ S.oscErrorCount < limit
  /\ Len(S.timers) < MaxTimers

\* The 'error' handler run for a dropped port.  The handler knows the device
\* only; out notes which port the event came from.
lateError(S, p) == [onError(S, p) EXCEPT !.out.log = "error of dropped port"]

reconnectTimer(S, k) ==
  reconnectOSC([S EXCEPT !.timers = RemoveAt(@, k)], S.timers[k].dev)

initTimer(S, k, openThrows) ==
  initOSCConnection([S EXCEPT !.timers = RemoveAt(@, k)], openThrows)

initEnabled(S, k) ==
  /\ Alive(S)
  /\ CanFire(S, k)
  /\ S.timers[k].fn = "initOSCConnection"
  /\ Cardinality(FreeIds(S)) >= Cardinality(NullDevices(S))

reconnectEnabled(S, k) ==
  /\ Alive(S)
  /\ CanFire(S, k)
  /\ S.timers[k].fn = "reconnectOSC"

messageEnabled(S, raw, sendThrows, limit) ==
  /\ Alive(S)
  /\ S.connectedClients > 0
  /\ sendThrows => S.oscErrorCount < limit
  /\ ~sendThrows => S.oscMessageCount < MaxMessages
  /\ Len(S.timers) < MaxTimers

\* wss.on('connection'): the confirmation is the only message the server
\* ever sends to a client.
wsConnection(S) ==
  [S EXCEPT !.connectedClients = @ + 1, !.wsSent = @ + 1]

wsClose(S) ==
  [S EXCEPT !.connectedClients = IF @ - 1 > 0 THEN @ - 1 ELSE 0]

\* process.on('SIGINT')
RECURSIVE closeAllFrom(_, _)
closeAllFrom(S, k) ==
  IF k > Len(DeviceKeys) THEN S
  ELSE LET p == S.oscUDPPorts[DeviceKeys[k]] IN
       closeAllFrom(IF p # 0 THEN closePort(S, p) ELSE S, k + 1)

sigint(S) == [closeAllFrom(S, 1) EXCEPT !.phase = "closing"]

\* the callback of server.close(): process.exit(0)
exit(S) == [S EXCEPT !.phase = "exited"]

\* The calls of open() that throw within one initOSCConnection: none or one.
OpenFailures(devs) == {{}} \cup {{d} : d \in devs}

\* lines 303-461, the start-up script run to its end.  Reading the key or the
\* certificate throws: the catch block calls process.exit(1).  Otherwise
\* server.listen() is called, whose outcome arrives as an event later, and
\* the script goes on to initOSCConnection().
boot(S, credentials, openThrows) ==
  IF ~credentials
  THEN [S EXCEPT !.phase = "exited", !.out.log = "ssl error"]
  ELSE [startup(S, openThrows) EXCEPT !.phase = "binding"]

\* lines 359-373, the callback of server.listen(): the port is bound.
listening(S) == [S EXCEPT !.phase = "running", !.out.log = "listening"]

\* The bind fails and the server emits 'error'.  No listener of the source
\* handles it, so it is thrown and reaches process.on('uncaughtException')
\* (lines 493-496), which logs it and returns: the process stays.
uncaughtException(S) == [S EXCEPT !.out.log = "uncaught exception"]

listenError(S) == uncaughtException([S EXCEPT !.phase = "unbound"])

(***************************************************************************)
(* The client (src/app.js).  Time is in milliseconds; now is Date.now(),   *)
(* counted from a page load at PageLoad.                                   *)
(***************************************************************************)
OSC_SEND_INTERVAL == 32
RECONNECT_DELAY == 3000
SAMPLE_PERIOD == 1000 \div 60
PageLoad == 1000

NoSocket == [rs |-> "none", events |-> <<>>]
\* A pose is "zero" (the origin, no rotation: where the preview scene puts
\* its markers, and what the display is given for a controller that is not
\* tracked) or "tracked" (a pose an XR frame reported).  What a tick shows
\* for a stream is the pose and the button text it hands to updateDisplay.
Streams == {"hmd", "ctrl0", "ctrl1"}
NotShown == [pos |-> "none", btn |-> "none"]
NoTick == [kind |-> "none", gate |-> FALSE, wrote |-> <<>>,
           shown |-> [st \in Streams |-> NotShown]]

ClientStart ==
  [ loaded             |-> FALSE,
    SERVER_URL         |-> "undefined",
    three              |-> FALSE,
    oscEnabled         |-> FALSE,
    lastOSCSendTime    |-> 0,
    socket             |-> 0,
    sockets            |-> [i \in 1..MaxSockets |-> NoSocket],
    timers             |-> <<>>,
    wsStatus           |-> "Disconnected",
    xrSession          |-> FALSE,
    startXR            |-> "idle",
    isPresenting       |-> FALSE,
    markers            |-> [st \in Streams |-> "zero"],
    animationLoop      |-> "none",
    oscToggleDisabled  |-> FALSE,
    dataSampleInterval |-> FALSE,
    intervals          |-> 0,
    nextSample         |-> 0,
    now                |-> PageLoad,
    serverUp           |-> FALSE,
    tick               |-> NoTick,
    lastTransmit       |-> 0 - 1,
    written            |-> 0,
    attempts           |-> 0 ]

\* socket && socket.readyState === WebSocket.OPEN
socketAssigned(C) == C.socket # 0

socketOpen(C) == C.socket # 0 /\ C.sockets[C.socket].rs = "OPEN"

FreeSockets(C) == {i \in 1..MaxSockets : C.sockets[i].rs = "none"}

\* A closed socket that nothing refers to any more and that has no event
\* left to deliver is gone.
dropSocket(C) ==
  IF C.socket # 0 /\ C.sockets[C.socket].rs = "CLOSED" /\ C.sockets[C.socket].events = <<>>
  THEN [C EXCEPT !.sockets[C.socket] = NoSocket]
  ELSE C

\* initWebSocket
initWebSocket(C) ==
  IF C.SERVER_URL # "url"
  THEN [C EXCEPT !.wsStatus = "Error: Server URL not set"]
  ELSE IF C.socket # 0 /\ C.sockets[C.socket].rs \in {"OPEN", "CONNECTING"}
  THEN C
  ELSE LET D == dropSocket(C)
           id == MinOf(FreeSockets(D))
       IN [D EXCEPT !.socket = id,
                    !.sockets[id] = [rs |-> "CONNECTING", events |-> <<>>],
                    !.attempts = IF @ < MaxAttempts THEN @ + 1 ELSE @]

\* The handlers initWebSocket puts on a socket.
onopen(C, id) == [C EXCEPT !.wsStatus = "Connected"]

onerrorReconnects(C, id) ==
  [C EXCEPT !.wsStatus = "Error",
            !.timers = Append(@, [fn |-> "initWebSocket", delay |-> RECONNECT_DELAY])]

onerror(C, id) == [C EXCEPT !.wsStatus = "Error"]

onclosePlain(C, id) == [C EXCEPT !.wsStatus = "Disconnected. Retrying..."]

onclose(C, id) ==
  [C EXCEPT !.wsStatus = "Disconnected. Retrying...",
            !.timers = Append(@, [fn |-> "initWebSocket", delay |-> RECONNECT_DELAY])]

\* normalizeAngle(angle), in whole degrees: the two while loops.
RECURSIVE angleDown(_)
angleDown(angle) == IF angle > 180 THEN angleDown(angle - 360) ELSE angle

RECURSIVE angleUp(_)
angleUp(angle) == IF angle < 0 - 180 THEN angleUp(angle + 360) ELSE angle

normalizeAngleOpenBelow(angle) ==
  LET a == angleUp(angleDown(angle)) IN IF a = 0 - 180 THEN 180 ELSE a

normalizeAngle(angle) == angleUp(angleDown(angle))

\* The position of a pose and the Euler angles, in degrees, that
\* quaternionToEulerDegrees gives for its orientation: those of the markers
\* of the preview scene, and those of one pose of an XR frame.
PoseValues(pose) ==
  IF pose = "zero"
  THEN [position |-> <<0, 0, 0>>, euler |-> <<0, 0, 0>>]
  ELSE [position |-> <<1, 2, 0 - 3>>, euler |-> <<90, 0 - 45, 180>>]

\* Number(v) || 0 for a number v: zero is falsy and gives 0 all the same.
numberOrZero(v) == IF v = 0 THEN Num(0) ELSE Num(v)

\* the args of the payload of sendOSCData
wireArgsWithButton(address, pose, btnPressed) ==
  LET v == PoseValues(pose)
  IN [i \in 1..3 |-> numberOrZero(v.position[i])]
       \o [i \in 1..3 |-> numberOrZero(normalizeAngle(v.euler[i]))]
       \o <<Num(IF btnPressed THEN 1 ELSE 0)>>

wireArgs(address, pose, btnPressed) ==
  LET v == PoseValues(pose)
  IN [i \in 1..3 |-> numberOrZero(v.position[i])]
       \o [i \in 1..3 |-> numberOrZero(normalizeAngle(v.euler[i]))]
       \o (IF StartsWith(address, PrefixController)
           THEN <<Num(IF btnPressed THEN 1 ELSE 0)>>
           ELSE <<>>)

\* sendOSCData(address, position, orientation, btnPressed): six numbers, and
\* the button state for a controller address.
sendOSCData(C, address, pose, btnPressed) ==
  IF ~socketOpen(C) THEN C
  ELSE LET controller == StartsWith(address, PrefixController)
           nargs == IF controller THEN 7 ELSE 6
       IN [C EXCEPT !.tick.wrote =
                       Append(@, [address |-> address, nargs |-> nargs, pose |-> pose,
                                  btn |-> controller /\ btnPressed,
                                  args |-> wireArgs(address, pose, btnPressed)]),
                    !.written = @ + 1]

\* the calls of sendOSCData of one tick, in their order
RECURSIVE sendAll(_, _, _)
sendAll(C, samples, k) ==
  IF k > Len(samples) THEN C
  ELSE sendAll(sendOSCData(C, samples[k].address, samples[k].pose, samples[k].btn),
               samples, k + 1)

\* updateDisplay(id, pos, euler, btnPressed); the HMD has no button element.
updateDisplay(C, id, pose, btnPressed) ==
  [C EXCEPT !.tick.shown[id] =
     [pos |-> pose,
      btn |-> IF id = "hmd" THEN "none"
              ELSE IF btnPressed THEN "Pressed" ELSE "Released"]]

StreamOf(i) == IF i = 0 THEN "ctrl0" ELSE "ctrl1"
AddrOf(st) ==
  IF st = "hmd" THEN AddrHmd ELSE IF st = "ctrl0" THEN AddrController0 ELSE AddrController1

toggleOSC(C) == [C EXCEPT !.oscEnabled = ~@]

\* startDataSampling / stopDataSampling.  dataSampleInterval is whether the
\* variable holds a handle, intervals the number of interval timers that are
\* running: clearInterval(dataSampleInterval) stops the one the handle names.
clearInterval(C) ==
  IF C.dataSampleInterval THEN [C EXCEPT !.intervals = @ - 1] ELSE C

startDataSamplingWithoutClear(C) ==
  [C EXCEPT !.dataSampleInterval = TRUE,
            !.intervals = @ + 1,
            !.nextSample = C.now + SAMPLE_PERIOD]

startDataSampling(C) ==
  [clearInterval(C) EXCEPT !.dataSampleInterval = TRUE,
                           !.intervals = @ + 1,
                           !.nextSample = C.now + SAMPLE_PERIOD]

stopDataSampling(C) == [clearInterval(C) EXCEPT !.dataSampleInterval = FALSE]

\* The tick of a sampler is over: note whether it wrote.
endTick(C) ==
  IF C.tick.wrote # <<>> THEN [C EXCEPT !.lastTransmit = C.now] ELSE C

\* the callback of setInterval in startDataSampling
streaming(C) == C.oscEnabled /\ socketOpen(C)

\* getCurrentHMDPose and getCurrentControllerPose(idx): the transform of the
\* stream's marker, and no button.
getCurrentPose(C, st) ==
  [address |-> AddrOf(st), pose |-> C.markers[st], btn |-> FALSE]

sampleTick(C) ==
  LET C0 == [C EXCEPT !.tick = [NoTick EXCEPT !.kind = "clock"],
                      !.nextSample = C.now + SAMPLE_PERIOD]
      C1 == updateDisplay(updateDisplay(updateDisplay(C0,
                "hmd", C.markers["hmd"], FALSE),
                "ctrl0", C.markers["ctrl0"], FALSE),
                "ctrl1", C.markers["ctrl1"], FALSE)
  IN IF C.xrSession /\ C.three /\ C.isPresenting THEN C0
     ELSE IF ~C.three THEN C0
     ELSE endTick(IF streaming(C1)
                  THEN sendAll(C1, <<getCurrentPose(C, "hmd"), getCurrentPose(C, "ctrl0"),
                                     getCurrentPose(C, "ctrl1")>>, 1)
                  ELSE C1)

\* renderXRFrame(timestamp, frame): pose is whether the frame has a viewer
\* pose, grips the input sources (of the first two) that have a grip pose,
\* pressed those of them with a button pressed.
shouldSendOSCWhenOpen(C, currentTime) ==
  socketOpen(C) /\ currentTime - C.lastOSCSendTime >= OSC_SEND_INTERVAL

shouldSendOSC(C, currentTime) ==
  /\ C.oscEnabled
  /\ socketOpen(C)
  /\ currentTime - C.lastOSCSendTime >= OSC_SEND_INTERVAL

frameAddressesWithZeros(pose, grips, pressed) ==
  (IF pose THEN <<[address |-> AddrHmd, pose |-> "tracked", btn |-> FALSE]>> ELSE <<>>)
    \o <<[address |-> AddrController0,
          pose |-> IF 0 \in grips THEN "tracked" ELSE "zero", btn |-> 0 \in pressed]>>
    \o <<[address |-> AddrController1,
          pose |-> IF 1 \in grips THEN "tracked" ELSE "zero", btn |-> 1 \in pressed]>>

frameAddresses(pose, grips, pressed) ==
  (IF pose THEN <<[address |-> AddrHmd, pose |-> "tracked", btn |-> FALSE]>> ELSE <<>>)
    \o (IF 0 \in grips
        THEN <<[address |-> AddrController0, pose |-> "tracked", btn |-> 0 \in pressed]>>
        ELSE <<>>)
    \o (IF 1 \in grips
        THEN <<[address |-> AddrController1, pose |-> "tracked", btn |-> 1 \in pressed]>>
        ELSE <<>>)

\* One controller of the frame: with a grip pose its marker is moved and its
\* pose and button are displayed; without one its marker is hidden and the
\* display is given zeros and no button.
frameController(C, i, grips, pressed) ==
  IF i \in grips
  THEN updateDisplay([C EXCEPT !.markers[StreamOf(i)] = "tracked"],
                     StreamOf(i), "tracked", i \in pressed)
  ELSE updateDisplay(C, StreamOf(i), "zero", FALSE)

\* renderXRFrame with the timestamp written by each send and the gate read
\* again for each stream: the first stream of the tick closes the gate.
renderXRFrameStampingEachSend(C, refSpace, pose, grips, pressed) ==
  LET C0 == [C EXCEPT !.tick = [NoTick EXCEPT !.kind = "frame"]]
      currentTime == C.now
      gate == shouldSendOSC(C, currentTime)
      all == frameAddresses(pose, grips, pressed)
      first == IF all = <<>> THEN <<>> ELSE <<Head(all)>>
  IN IF ~C.xrSession \/ ~C.three \/ ~refSpace THEN C0
     ELSE LET H == IF pose
                   THEN updateDisplay([C0 EXCEPT !.markers["hmd"] = "tracked"],
                                      "hmd", "tracked", FALSE)
                   ELSE C0
              M == frameController(frameController(H, 0, grips, pressed), 1, grips, pressed)
              C1 == IF gate THEN sendAll(M, first, 1) ELSE M
              C2 == IF gate THEN [C1 EXCEPT !.lastOSCSendTime = currentTime,
                                            !.tick.gate = TRUE]
                            ELSE C1
          IN endTick(C2)

renderXRFrame(C, refSpace, pose, grips, pressed) ==
  LET C0 == [C EXCEPT !.tick = [NoTick EXCEPT !.kind = "frame"]]
      currentTime == C.now
      gate == shouldSendOSC(C, currentTime)
  IN IF ~C.xrSession \/ ~C.three \/ ~refSpace THEN C0
     ELSE LET H == IF pose
                   THEN updateDisplay([C0 EXCEPT !.markers["hmd"] = "tracked"],
                                      "hmd", "tracked", FALSE)
                   ELSE C0
              M == frameController(frameController(H, 0, grips, pressed), 1, grips, pressed)
              C1 == IF gate THEN sendAll(M, frameAddresses(pose, grips, pressed), 1) ELSE M
              C2 == IF gate THEN [C1 EXCEPT !.lastOSCSendTime = currentTime,
                                            !.tick.gate = TRUE]
                            ELSE C1
          IN endTick(C2)

\* onXRSessionEnded
onXRSessionEnded(C) ==
  startDataSampling([C EXCEPT !.xrSession = FALSE,
                              !.isPresenting = FALSE,
                              !.oscToggleDisabled = FALSE,
                              !.animationLoop = "preview"])

\* DOMContentLoaded
domContentLoaded(C, urlOk, three) ==
  LET C1 == [C EXCEPT !.loaded = TRUE,
                      !.SERVER_URL = IF urlOk THEN "url" ELSE "null",
                      !.wsStatus = IF urlOk THEN @ ELSE "Error: Invalid server address in HTML",
                      !.three = three,
                      !.animationLoop = IF three THEN "preview" ELSE "none"]
      C2 == IF C1.SERVER_URL = "url" THEN initWebSocket(C1) ELSE C1
  IN startDataSampling(C2)

\* tick holds what the sampler tick that has just run did.
Still(C) == [C EXCEPT !.tick = NoTick]

(***************************************************************************)
(* The server alone.                                                       *)
(***************************************************************************)
ServerInit == server = ServerStart /\ twin = ServerStart /\ client = ClientStart

Startup ==
  /\ server.phase = "loading"
  /\ \E openThrows \in OpenFailures(Devices) : server' = startup(Quiet(server), openThrows)
  /\ UNCHANGED <<twin, client>>

PortReady ==
  /\ \E p \in 1..MaxPorts : readyEnabled(server, p) /\ server' = onReady(Quiet(server), p)
  /\ UNCHANGED <<twin, client>>

PortError(limit) ==
  /\ \E p \in 1..MaxPorts : errorEnabled(server, p, limit) /\ server' = onError(Quiet(server), p)
  /\ UNCHANGED <<twin, client>>

PortClose ==
  /\ \E p \in 1..MaxPorts : closeEnabled(server, p) /\ server' = onClose(Quiet(server), p)
  /\ UNCHANGED <<twin, client>>

ReconnectTimer ==
  /\ \E k \in 1..MaxTimers : reconnectEnabled(server, k) /\ server' = reconnectTimer(Quiet(server), k)
  /\ UNCHANGED <<twin, client>>

InitTimer ==
  /\ \E k \in 1..MaxTimers : 
       /\ initEnabled(server, k)
       /\ \E openThrows \in OpenFailures(NullDevices(server)) :
            server' = initTimer(Quiet(server), k, openThrows)
  /\ UNCHANGED <<twin, client>>

WsConnection ==
  /\ server.phase = "running"
  /\ server.wsSent < MaxClients
  /\ server' = wsConnection(Quiet(server))
  /\ UNCHANGED <<twin, client>>

WsClose ==
  /\ Alive(server)
  /\ server.connectedClients > 0
  /\ server' = wsClose(Quiet(server))
  /\ UNCHANGED <<twin, client>>

WsMessage(limit) ==
  /\ \E raw \in Frames, sendThrows \in BOOLEAN :
       /\ messageEnabled(server, raw, sendThrows, limit)
       /\ server' = wsMessage(Quiet(server), raw, sendThrows)
  /\ UNCHANGED <<twin, client>>

Sigint ==
  /\ server.phase \in {"running", "unbound"}
  /\ server' = sigint(Quiet(server))
  /\ UNCHANGED <<twin, client>>

Exit ==
  /\ server.phase = "closing"
  /\ server.connectedClients = 0
  /\ server' = exit(Quiet(server))
  /\ UNCHANGED <<twin, client>>

ServerNext ==
  \/ Startup
  \/ PortReady
  \/ PortError(MaxFaults)
  \/ PortClose
  \/ ReconnectTimer
  \/ InitTimer
  \/ WsConnection
  \/ WsClose
  \/ WsMessage(MaxFaults)
  \/ Sigint
  \/ Exit

ServerSpec == ServerInit /\ [][ServerNext]_vars

\* The device channels with the events of ports that were dropped: the error
\* of a dropped port, and its close event, arrive whenever they arrive.
PortLateError(limit) ==
  /\ \E p \in 1..MaxPorts :
       lateErrorEnabled(server, p, limit) /\ server' = lateError(Quiet(server), p)
  /\ UNCHANGED <<twin, client>>

LateEventNext ==
  \/ Startup
  \/ PortReady
  \/ PortError(MaxFaults)
  \/ PortLateError(MaxFaults)
  \/ PortClose
  \/ ReconnectTimer
  \/ InitTimer

LateEventSpec == ServerInit /\ [][LateEventNext]_vars

\* The server from the start of its script, with both outcomes of loading the
\* credentials and of binding the listening port.
Boot ==
  /\ server.phase = "loading"
  /\ \E credentials \in BOOLEAN, openThrows \in OpenFailures(Devices) :
       server' = boot(Quiet(server), credentials, openThrows)
  /\ UNCHANGED <<twin, client>>

Listening ==
  /\ server.phase = "binding"
  /\ server' = listening(Quiet(server))
  /\ UNCHANGED <<twin, client>>

ListenError ==
  /\ server.phase = "binding"
  /\ server' = listenError(Quiet(server))
  /\ UNCHANGED <<twin, client>>

BootNext ==
  \/ Boot
  \/ Listening
  \/ ListenError
  \/ PortReady
  \/ PortError(MaxFaults)
  \/ PortClose
  \/ ReconnectTimer
  \/ InitTimer
  \/ WsConnection
  \/ WsClose
  \/ Sigint
  \/ Exit

BootSpec == ServerInit /\ [][BootNext]_vars

\* The router: the server with its channels opening, and clients that send
\* whatever they like.
RouterMessage ==
  /\ \E raw \in RouterFrames :
       /\ messageEnabled(server, raw, FALSE, 0)
       /\ server' = wsFrame(Quiet(server), raw, FALSE)
  /\ UNCHANGED <<twin, client>>

RouterNext ==
  \/ Startup
  \/ PortReady
  \/ WsConnection
  \/ WsClose
  \/ RouterMessage

RouterSpec == ServerInit /\ [][RouterNext]_vars

(***************************************************************************)
(* The server when the only failures are calls of udpPort.send that throw: *)
(* no port emits an error event and the process is not interrupted, so the *)
(* error counter can be followed past ERROR_LIMIT.                         *)
(***************************************************************************)
SendNext ==
  \/ Startup
  \/ PortReady
  \/ PortClose
  \/ InitTimer
  \/ WsConnection
  \/ WsClose
  \/ WsMessage(MaxErrors)

SendSpec == ServerInit /\ [][SendNext]_vars

(***************************************************************************)
(* Two servers side by side.  Both receive the same WebSocket traffic and  *)
(* the same port events on the observed devices; the failures of           *)
(* CONTROLLER0's channel happen in `server' only.  A handler runs in each  *)
(* server in which its event can occur.                                    *)
(***************************************************************************)
FailingDevice == "CONTROLLER0"
Observed == Devices \ {FailingDevice}

openingPort(S, d) == {p \in 1..MaxPorts : p = S.oscUDPPorts[d] /\ readyEnabled(S, p)}
livePort(S, d) ==
  {p \in 1..MaxPorts : p = S.oscUDPPorts[d] /\ Alive(S) /\ S.ports[p].st \in {"opening", "ready"}}
closingPorts(S, d) == {p \in 1..MaxPorts : S.ports[p].dev = d /\ closeEnabled(S, p)}
dueTimers(S, fn, d) ==
  {k \in 1..Len(S.timers) : CanFire(S, k) /\ S.timers[k].fn = fn /\ S.timers[k].dev = d}

pendingTimers(S, fn, d) ==
  {k \in 1..Len(S.timers) : S.timers[k].fn = fn /\ S.timers[k].dev = d}
\* The timer is due in every server in which it is pending.
dueWherePending(S, fn, d) == pendingTimers(S, fn, d) # {} => dueTimers(S, fn, d) # {}

readyOf(S, d) ==
  IF openingPort(S, d) # {} THEN onReady(Quiet(S), MinOf(openingPort(S, d))) ELSE Quiet(S)
errorOf(S, d) ==
  IF livePort(S, d) # {} THEN onError(Quiet(S), MinOf(livePort(S, d))) ELSE Quiet(S)
closeOf(S, d) ==
  IF closingPorts(S, d) # {} THEN onClose(Quiet(S), MinOf(closingPorts(S, d))) ELSE Quiet(S)
reconnectOf(S, d) ==
  IF dueTimers(S, "reconnectOSC", d) # {}
  THEN reconnectTimer(Quiet(S), MinOf(dueTimers(S, "reconnectOSC", d)))
  ELSE Quiet(S)
initOf(S, d) ==
  IF dueTimers(S, "initOSCConnection", d) # {}
  THEN initTimer(Quiet(S), MinOf(dueTimers(S, "initOSCConnection", d)), {})
  ELSE Quiet(S)

TwinStartup ==
  /\ UNCHANGED client
  /\ server.phase = "loading"
  /\ server' = startup(Quiet(server), {})
  /\ twin' = startup(Quiet(twin), {})

TwinReady ==
  /\ UNCHANGED client
  /\ \E d \in Devices :
        /\ openingPort(server, d) # {} \/ openingPort(twin, d) # {}
        /\ server' = readyOf(server, d)
        /\ twin' = readyOf(twin, d)

TwinClose ==
  /\ UNCHANGED client
  /\ \E d \in Devices :
        /\ closingPorts(server, d) # {} \/ closingPorts(twin, d) # {}
        /\ server' = closeOf(server, d)
        /\ twin' = closeOf(twin, d)

TwinInitTimer ==
  /\ UNCHANGED client
  /\ \E d \in Devices :
        /\ Alive(server)
        /\ dueTimers(server, "initOSCConnection", d) # {}
             \/ dueTimers(twin, "initOSCConnection", d) # {}
        /\ dueWherePending(server, "initOSCConnection", d)
        /\ dueWherePending(twin, "initOSCConnection", d)
        /\ Cardinality(FreeIds(server)) >= Cardinality(NullDevices(server))
        /\ Cardinality(FreeIds(twin)) >= Cardinality(NullDevices(twin))
        /\ server' = initOf(server, d)
        /\ twin' = initOf(twin, d)

TwinReconnectTimer ==
  /\ UNCHANGED client
  /\ \E d \in Devices :
        /\ Alive(server)
        /\ dueTimers(server, "reconnectOSC", d) # {}
             \/ dueTimers(twin, "reconnectOSC", d) # {}
        /\ dueWherePending(server, "reconnectOSC", d)
        /\ dueWherePending(twin, "reconnectOSC", d)
        /\ server' = reconnectOf(server, d)
        /\ twin' = reconnectOf(twin, d)

TwinConnection ==
  /\ UNCHANGED client
  /\ server.phase = "running"
  /\ server.wsSent < MaxClients
  /\ server' = wsConnection(Quiet(server))
  /\ twin' = wsConnection(Quiet(twin))

\* The same frame arrives at both servers; a send on the failing device's
\* channel can throw in `server' alone, a send on an observed device's
\* channel throws in both or in neither.
TwinMessage(limit) ==
  /\ UNCHANGED client
  /\ \E raw \in Frames, sendThrows \in BOOLEAN :
        LET failing == getDeviceTypeFromAddress(raw.msg.address.s) = FailingDevice
            inTwin == IF failing THEN FALSE ELSE sendThrows
        IN /\ Alive(server)
           /\ server.connectedClients > 0
           /\ Len(server.timers) < MaxTimers
           /\ Len(twin.timers) < MaxTimers
           /\ sendThrows => server.oscErrorCount < limit
           /\ inTwin => twin.oscErrorCount < MaxObservedFaults
           /\ ~sendThrows => server.oscMessageCount < MaxMessages
           /\ ~inTwin => twin.oscMessageCount < limit + MaxMessages
           /\ server' = wsMessage(Quiet(server), raw, sendThrows)
           /\ twin' = wsMessage(Quiet(twin), raw, inTwin)

\* An error event on the failing device's port, in `server' alone.
FailingPortError ==
  /\ UNCHANGED client
  /\ livePort(server, FailingDevice) # {}
  /\ server.oscErrorCount < MaxFaults
  /\ Len(server.timers) < MaxTimers
  /\ server' = errorOf(server, FailingDevice)
  /\ twin' = Quiet(twin)

\* An error event on an observed device's port, in both servers.
TwinPortError ==
  /\ UNCHANGED client
  /\ \E d \in Observed :
        /\ livePort(server, d) # {} \/ livePort(twin, d) # {}
        /\ server.oscErrorCount < MaxFaults
        /\ twin.oscErrorCount < MaxObservedFaults
        /\ Len(server.timers) < MaxTimers
        /\ Len(twin.timers) < MaxTimers
        /\ server' = errorOf(server, d)
        /\ twin' = errorOf(twin, d)

\* Failures of the failing device: thrown sends only.
SendFailureNext ==
  \/ TwinStartup
  \/ TwinReady
  \/ TwinClose
  \/ TwinInitTimer
  \/ TwinConnection
  \/ TwinMessage(MaxErrors)

SendFailureSpec == ServerInit /\ [][SendFailureNext]_vars

\* Failures of the failing device: error events of its port.
IsolationNext ==
  \/ TwinStartup
  \/ TwinReady
  \/ TwinClose
  \/ TwinReconnectTimer
  \/ TwinInitTimer
  \/ TwinConnection
  \/ TwinMessage(MaxFaults)
  \/ FailingPortError
  \/ TwinPortError

IsolationSpec == ServerInit /\ [][IsolationNext]_vars

(***************************************************************************)
(* The steps of the client: the page's events and callbacks, each run to   *)
(* its end, and the events of its environment.                             *)
(***************************************************************************)
ClientInit == client = ClientStart /\ server = ServerStart /\ twin = ServerStart

DomLoaded ==
  /\ ~client.loaded
  /\ \E urlOk \in BOOLEAN, three \in BOOLEAN :
       client' = domContentLoaded(Still(client), urlOk, three)
  /\ UNCHANGED <<server, twin>>

\* The server starts to accept connections.
ServerStarts ==
  /\ ~client.serverUp
  /\ client' = [Still(client) EXCEPT !.serverUp = TRUE]
  /\ UNCHANGED <<server, twin>>

\* The connection is established: readyState becomes OPEN and onopen runs.
SocketOpens ==
  /\ \E id \in 1..MaxSockets :
       /\ client.sockets[id].rs = "CONNECTING"
       /\ client.serverUp
       /\ client' = onopen([Still(client) EXCEPT !.sockets[id].rs = "OPEN"], id)
  /\ UNCHANGED <<server, twin>>

\* The connection fails (an attempt nobody accepts, or an open connection
\* that is lost): readyState becomes CLOSED, an error and a close event follow.
SocketFails ==
  /\ \E id \in 1..MaxSockets :
       /\ \/ client.sockets[id].rs = "CONNECTING" /\ ~client.serverUp
          \/ client.sockets[id].rs = "OPEN"
       /\ client' = [Still(client) EXCEPT !.sockets[id] =
                       [rs |-> "CLOSED", events |-> <<"error", "close">>]]
  /\ UNCHANGED <<server, twin>>

\* The server closes an open connection: a close event follows.
SocketCloses ==
  /\ \E id \in 1..MaxSockets :
       /\ client.sockets[id].rs = "OPEN"
       /\ client' = [Still(client) EXCEPT !.sockets[id] =
                       [rs |-> "CLOSED", events |-> <<"close">>]]
  /\ UNCHANGED <<server, twin>>

\* The next event of a socket is delivered to its handler.
socketEvent(C, id) ==
  LET ev == Head(C.sockets[id].events)
      C1 == [C EXCEPT !.sockets[id].events = Tail(@)]
      C2 == IF ev = "error" THEN onerror(C1, id) ELSE onclose(C1, id)
  IN IF C2.sockets[id].events = <<>> /\ C2.socket # id
     THEN [C2 EXCEPT !.sockets[id] = NoSocket]
     ELSE C2

SocketEvent ==
  /\ \E id \in 1..MaxSockets :
       /\ client.sockets[id].events # <<>>
       /\ client' = socketEvent(Still(client), id)
  /\ UNCHANGED <<server, twin>>

\* The oldest reconnect timer runs out: initWebSocket.
\* The timer as an interval: it stays pending after it has run.
reconnectRepeating(C) == initWebSocket(C)

reconnectDue(C) == initWebSocket([C EXCEPT !.timers = Tail(@)])

ReconnectDue ==
  /\ client.timers # <<>>
  /\ FreeSockets(dropSocket(client)) # {}
  /\ client' = reconnectDue(Still(client))
  /\ UNCHANGED <<server, twin>>

ToggleOSC ==
  /\ client.loaded
  /\ ~client.oscToggleDisabled
  /\ client' = toggleOSC(Still(client))
  /\ UNCHANGED <<server, twin>>

\* startXRSession, up to its first await.
StartXRClick ==
  /\ client.loaded
  /\ client.three
  /\ ~client.oscToggleDisabled
  /\ client.startXR = "idle"
  /\ client' = [Still(client) EXCEPT !.startXR = "requesting"]
  /\ UNCHANGED <<server, twin>>

\* requestSession settles: the session is stored, or the catch block runs.
XRRequestResolves ==
  /\ client.startXR = "requesting"
  /\ \E ok \in BOOLEAN :
       client' = IF ok THEN [Still(client) EXCEPT !.xrSession = TRUE, !.startXR = "setting"]
                       ELSE [Still(client) EXCEPT !.startXR = "idle"]
  /\ UNCHANGED <<server, twin>>

\* renderer.xr.setSession starts to present before its promise settles.
XRPresentingBegins ==
  /\ client.startXR = "setting"
  /\ client.xrSession
  /\ ~client.isPresenting
  /\ client' = [Still(client) EXCEPT !.isPresenting = TRUE]
  /\ UNCHANGED <<server, twin>>

\* setSession settles: the rest of startXRSession, or its catch block.
xrSessionSetKeepsSampling(C) ==
  [C EXCEPT !.isPresenting = C.xrSession,
            !.oscToggleDisabled = TRUE,
            !.animationLoop = "xr",
            !.startXR = "idle"]

xrSessionSet(C) ==
  stopDataSampling([C EXCEPT !.isPresenting = C.xrSession,
                             !.oscToggleDisabled = TRUE,
                             !.animationLoop = "xr",
                             !.startXR = "idle"])

XRSetSessionResolves ==
  /\ client.startXR = "setting"
  /\ \E ok \in BOOLEAN :
       client' = IF ok THEN xrSessionSet(Still(client))
                       ELSE [Still(client) EXCEPT !.startXR = "idle"]
  /\ UNCHANGED <<server, twin>>

\* the session's 'end' event
XREnds ==
  /\ client.xrSession
  /\ client' = onXRSessionEnded(Still(client))
  /\ UNCHANGED <<server, twin>>

\* What a frame can report: whether there is a viewer pose, which of the two
\* input sources have a grip pose, and which of these have a button pressed.
FramesOfEveryKind ==
  {f \in [pose : BOOLEAN, grips : SUBSET {0, 1}, pressed : SUBSET {0, 1}] :
     f.pressed \subseteq f.grips}

\* Everything tracked, the headset alone, or nothing.
FramesOfThreeKinds ==
  {f \in FramesOfEveryKind :
     /\ f.pressed = {}
     /\ f.grips \in {{}, {0, 1}}
     /\ f.grips # {} => f.pose}

FrameTick(frames) ==
  /\ client.animationLoop = "xr"
  /\ \E refSpace \in BOOLEAN, f \in frames :
       client' = renderXRFrame(client, refSpace, f.pose, f.grips, f.pressed)
  /\ UNCHANGED <<server, twin>>

SampleTick ==
  /\ client.dataSampleInterval
  /\ client.now >= client.nextSample
  /\ client' = sampleTick(client)
  /\ UNCHANGED <<server, twin>>

\* Time passes; the interval's callback is not late by more than a step.
AdvanceTime(limit) ==
  /\ client.loaded
  /\ client.now < PageLoad + limit
  /\ client.dataSampleInterval => client.now < client.nextSample
  /\ client' = [Still(client) EXCEPT !.now = @ + TimeStep]
  /\ UNCHANGED <<server, twin>>

\* Both samplers, tick by tick, over a short stretch of time; no reconnect
\* timer runs out within it.
ClientNext ==
  \/ DomLoaded
  \/ ServerStarts
  \/ SocketOpens
  \/ SocketFails
  \/ SocketCloses
  \/ SocketEvent
  \/ ToggleOSC
  \/ StartXRClick
  \/ XRRequestResolves
  \/ XRPresentingBegins
  \/ XRSetSessionResolves
  \/ XREnds
  \/ FrameTick(FramesOfThreeKinds)
  \/ SampleTick
  \/ AdvanceTime(Horizon)

ClientSpec == ClientInit /\ [][ClientNext]_vars

\* Both samplers with frames of every kind, over a connection that stays.
PoseNext ==
  \/ DomLoaded
  \/ ServerStarts
  \/ SocketOpens
  \/ ToggleOSC
  \/ StartXRClick
  \/ XRRequestResolves
  \/ XRPresentingBegins
  \/ XRSetSessionResolves
  \/ XREnds
  \/ FrameTick(FramesOfEveryKind)
  \/ SampleTick
  \/ AdvanceTime(Horizon)

PoseSpec == ClientInit /\ [][PoseNext]_vars

\* The clock-driven sampler over a longer stretch of time.
ThrottleNext ==
  \/ DomLoaded
  \/ ServerStarts
  \/ SocketOpens
  \/ ToggleOSC
  \/ SampleTick
  \/ AdvanceTime(WindowEnd)

ThrottleSpec == ClientInit /\ [][ThrottleNext]_vars

\* The client's connection, without the passage of time: a timer that is
\* pending runs out, an event that is due is delivered, and an attempt the
\* server accepts succeeds.
ReconnectNext ==
  \/ DomLoaded
  \/ ServerStarts
  \/ SocketOpens
  \/ SocketFails
  \/ SocketCloses
  \/ SocketEvent
  \/ ReconnectDue
  \/ ToggleOSC

ReconnectSpec ==
  /\ ClientInit
  /\ [][ReconnectNext]_vars
  /\ WF_vars(ReconnectDue)
  /\ WF_vars(SocketEvent)
  /\ WF_vars(SocketOpens)

\* The clock-driven sampler while the connection comes and goes: a reconnect
\* timer may run out at any time, so that every interleaving of samples,
\* failures and reconnects within the stretch of time is covered.
DropNext ==
  \/ DomLoaded
  \/ ServerStarts
  \/ SocketOpens
  \/ SocketFails
  \/ SocketCloses
  \/ SocketEvent
  \/ ReconnectDue
  \/ ToggleOSC
  \/ SampleTick
  \/ AdvanceTime(Horizon)

DropSpec == ClientInit /\ [][DropNext]_vars

\* normalizeAngle on its own: client holds one call of it, its argument and,
\* once it has returned, its result.
AngleInit ==
  /\ client \in {[angle |-> a, returned |-> FALSE, result |-> 0] :
                   a \in (0 - MaxAngle)..MaxAngle}
  /\ server = ServerStart
  /\ twin = ServerStart

NormalizeAngle ==
  /\ ~client.returned
  /\ client' = [client EXCEPT !.returned = TRUE, !.result = normalizeAngle(client.angle)]
  /\ UNCHANGED <<server, twin>>

AngleSpec == AngleInit /\ [][NormalizeAngle]_vars

(***************************************************************************)
(* Properties of the server.                                               *)
(***************************************************************************)
InitTimerFor(d) == [fn |-> "initOSCConnection", dev |-> d, delay |-> REINIT_DELAY]

\* A step in which sendOSC called udpPort.send and the call threw.
ThrownSend ==
  /\ server'.out.ret = "false"
  /\ server'.oscErrorCount = server.oscErrorCount + 1

\* A step in which sendOSC ran.
SendStep == server'.out.ret # "none"

OpenInFlight(S, d) ==
  S.oscUDPPorts[d] # 0 /\ S.ports[S.oscUDPPorts[d]].st = "opening"

RetryPending(S, d) ==
  \E i \in 1..Len(S.timers) :
     \/ S.timers[i].fn = "reconnectOSC" /\ S.timers[i].dev = d
     \/ S.timers[i].fn = "initOSCConnection" /\ S.oscUDPPorts[d] = 0

ChannelReady(S, d) ==
  /\ S.oscConnected[d]
  /\ S.oscUDPPorts[d] # 0
  /\ S.ports[S.oscUDPPorts[d]].st = "ready"

\* C6: before shutdown, a device whose channel is not Ready has an open
\* attempt in flight or a retry (a reconnect or a re-initialisation that
\* would open it) pending.
NoTerminalFailure ==
  \A d \in Devices :
     (server.phase = "running" /\ ~ChannelReady(server, d))
        => (OpenInFlight(server, d) \/ RetryPending(server, d))

\* C7: an error event on device d's port marks d not connected at once, and
\* the timers of d's recovery (reconnectOSC(d), then initOSCConnection) leave
\* every other device's port handle as it was.
ErrorEventStep(p) == errorEnabled(server, p, MaxFaults) /\ server' = onError(Quiet(server), p)

RecoveryStepOf(d) ==
  \E k \in 1..Len(server.timers) :
     /\ server.timers[k].dev = d
     /\ \/ reconnectEnabled(server, k) /\ server' = reconnectTimer(Quiet(server), k)
        \/ /\ initEnabled(server, k)
           /\ \E openThrows \in OpenFailures(NullDevices(server)) :
                server' = initTimer(Quiet(server), k, openThrows)

ErrorRecoveryIsLocal ==
  [][ /\ \A p \in 1..MaxPorts :
           ErrorEventStep(p) => ~server'.oscConnected[server.ports[p].dev]
      /\ \A d \in Devices :
           RecoveryStepOf(d) =>
             \A e \in Devices \ {d} : server'.oscUDPPorts[e] = server.oscUDPPorts[e]
    ]_vars

NotReadySendIsDropped ==
  [][ (SendStep /\ LET d == server'.out.dev IN
                   ~server.oscConnected[d] \/ server.oscUDPPorts[d] = 0)
        => /\ server'.out.ret = "false"
           /\ ~server'.out.called
           /\ server'.out.dgram = <<>>
           /\ Quiet(server') = Quiet(server)
    ]_vars

NotReadySendSeen ==
  /\ server.out.ret = "false"
  /\ ~server.out.called
  /\ server.oscUDPPorts[server.out.dev] = 0
  /\ \E i \in 1..Len(server.timers) : server.timers[i] = InitTimerFor(server.out.dev)

\* What a client of device d's channel can see of it.
ChannelView(S, d) ==
  [connected |-> S.oscConnected[d],
   hasPort   |-> S.oscUDPPorts[d] # 0,
   st        |-> IF S.oscUDPPorts[d] # 0 THEN S.ports[S.oscUDPPorts[d]].st ELSE "none"]

SendResult(S, d) == IF S.out.dev = d THEN S.out.ret ELSE "none"

\* C4: thrown sends on CONTROLLER0's channel, with the reconnectOSC and the
\* initOSCConnection they lead to, leave the connected flag and the port
\* handle of HMD and CONTROLLER1 as they are without the failures, and
\* sendOSC to HMD or CONTROLLER1 returns what it returns without them.
SendFailureLeavesOthersAlone ==
  \A d \in Observed :
     /\ server.oscConnected[d] = twin.oscConnected[d]
     /\ (server.oscUDPPorts[d] = 0) = (twin.oscUDPPorts[d] = 0)
     /\ SendResult(server, d) = SendResult(twin, d)

\* C5: two runs that differ only in the failures of another device's channel
\* take an observed device's channel through the same transitions and give
\* the same results for the sends to it.
ChannelDependsOnOwnEvents ==
  [][ \A d \in Observed :
        (ChannelView(server, d) = ChannelView(twin, d))
           => /\ ChannelView(server', d) = ChannelView(twin', d)
              /\ SendResult(server', d) = SendResult(twin', d)
    ]_vars

(***************************************************************************)
(* Properties of the client.                                               *)
(***************************************************************************)
\* A step in which a sampler tick handed at least one message to socket.send.
TickWrites == client'.tick.wrote # <<>>

\* C1: in both sampling regimes a tick writes a wire message only in a state
\* where streaming is enabled and the client's socket is OPEN; in every other
\* state a tick writes nothing.
WritesOnlyWhenStreaming ==
  [][ TickWrites =>
        /\ client.oscEnabled
        /\ client.socket # 0
        /\ client.sockets[client.socket].rs = "OPEN"
    ]_vars

BothSamplersHaveWritten ==
  /\ client.tick.kind = "clock"
  /\ Len(client.tick.wrote) = 3
  /\ client.lastOSCSendTime > 0
  /\ client.written > 3

\* C2: whichever sampler is active, a tick transmits only if at least
\* OSC_SEND_INTERVAL milliseconds have passed since the previous tick that
\* transmitted.
TransmittingTicksAreSpaced ==
  [][ TickWrites =>
        \/ client.lastTransmit < 0
        \/ client.now - client.lastTransmit >= OSC_SEND_INTERVAL
    ]_vars

\* C3: within a second of sampler ticks above 30 Hz, at most
\* ceil(1000 / OSC_SEND_INTERVAL) = 32 wire messages are written in all.
AtMost32MessagesPerSecond ==
  client.now - PageLoad < 1000
     => client.written <= (1000 + OSC_SEND_INTERVAL - 1) \div OSC_SEND_INTERVAL

\* C10: the close event of a client socket schedules exactly one
\* initWebSocket after RECONNECT_DELAY; when that timer runs out and the
\* current socket is neither open nor connecting a new attempt starts,
\* whatever the number of attempts made before; and once the server accepts
\* connections a client that has a socket becomes connected.
CloseEventOf(id) ==
  /\ client.sockets[id].events # <<>>
  /\ Head(client.sockets[id].events) = "close"
  /\ client'.sockets[id].events # client.sockets[id].events

TimerRunsOut ==
  /\ client.timers # <<>>
  /\ Len(client'.timers) < Len(client.timers)

ReconnectsUntilConnected ==
  /\ [][ \A id \in 1..MaxSockets :
           CloseEventOf(id) =>
             client'.timers =
               Append(client.timers, [fn |-> "initWebSocket", delay |-> RECONNECT_DELAY])
       ]_vars
  /\ [][ (TimerRunsOut /\ ~(client.socket # 0
                             /\ client.sockets[client.socket].rs \in {"OPEN", "CONNECTING"}))
           => /\ client'.socket # 0
              /\ client'.sockets[client'.socket].rs = "CONNECTING"
       ]_vars
  /\ ((client.serverUp /\ client.socket # 0) ~> socketOpen(client))

ReconnectedAfterClose ==
  /\ client.attempts >= 2
  /\ socketOpen(client)
  /\ client.timers = <<>>

\* The delivery of the next event of socket id, when that event is ev.
EventStepOf(id, ev) ==
  /\ client.sockets[id].events # <<>>
  /\ Head(client.sockets[id].events) = ev
  /\ client'.sockets[id].events = Tail(client.sockets[id].events)

ReconnectTimer3s == [fn |-> "initWebSocket", delay |-> RECONNECT_DELAY]

\* C11 as stated: the error event of the client's socket schedules one
\* reconnect attempt, 3 s later, as the close event does.
ErrorEventSchedulesReconnect ==
  [][\A id \in 1..MaxSockets :
       EventStepOf(id, "error") =>
         client'.timers = Append(client.timers, ReconnectTimer3s)]_vars

\* C11, amended: the error event of the client's socket schedules nothing
\* (it sets the status text, and the socket's close event is still to come);
\* the close event schedules exactly one call of initWebSocket, 3 s later,
\* so that a failed connection gets one reconnect attempt and not two.
ErrorEventLeavesReconnectToClose ==
  [][\A id \in 1..MaxSockets :
       /\ EventStepOf(id, "error") =>
            /\ client'.timers = client.timers
            /\ client'.wsStatus = "Error"
            /\ client'.sockets[id].events = <<"close">>
       /\ EventStepOf(id, "close") =>
            client'.timers = Append(client.timers, ReconnectTimer3s)]_vars

\* The error event of a failed socket has been delivered, its close event
\* has not, and no reconnect is scheduled.
ErrorDeliveredCloseToCome ==
  /\ client.wsStatus = "Error"
  /\ client.timers = <<>>
  /\ \E id \in 1..MaxSockets : client.sockets[id].events = <<"close">>
                              /\ client.sockets[id].rs = "CLOSED"
  /\ client.attempts >= 1

\* C12: a sample published while the client's socket is not OPEN is never
\* written to a socket.  A step taken while the socket is not OPEN writes
\* nothing, and whatever is written is written by a sampler's tick and is
\* what that tick itself published, each stream once: nothing is kept to be
\* written after a reconnect.
SamplesWhileNotOpenAreDropped ==
  [][/\ ~(client.socket # 0 /\ client.sockets[client.socket].rs = "OPEN")
          => client'.written = client.written
     /\ client'.written # client.written =>
          /\ client'.tick.kind # "none"
          /\ client'.written = client.written + Len(client'.tick.wrote)
          /\ \A i, j \in 1..Len(client'.tick.wrote) :
               client'.tick.wrote[i].address = client'.tick.wrote[j].address => i = j
     /\ client'.tick.kind = "none" => client'.written = client.written]_vars

\* A tick of the clock-driven sampler, with streaming switched on, found the
\* socket of a reconnect attempt not OPEN and wrote nothing, after earlier
\* samples had been written.
SampleDroppedDuringReconnect ==
  /\ client.tick.kind = "clock"
  /\ client.oscEnabled
  /\ client.three
  /\ client.socket # 0
  /\ client.sockets[client.socket].rs = "CONNECTING"
  /\ client.attempts >= 2
  /\ client.tick.wrote = <<>>
  /\ client.written > 0

(***************************************************************************)
(* Properties of the router.                                               *)
(***************************************************************************)
\* The server reads frame raw from a client's connection.
FrameStepOf(raw) ==
  /\ messageEnabled(server, raw, FALSE, 0)
  /\ server' = wsFrame(Quiet(server), raw, FALSE)

\* An envelope is malformed when it is not JSON, is JSON null or not an
\* object, has an address that is not a string, or args that is not an array.
MalformedEnvelope(raw) ==
  \/ ~raw.json
  \/ raw.msg.kind # "object"
  \/ raw.msg.address.t # "string"
  \/ ~raw.msg.isArray

\* C13: for every inbound payload with a malformed envelope the server emits
\* no datagram, changes no channel state (nothing of its state at all),
\* sends no reply, lets no exception leave the message handler, and is as
\* ready for the next message as it was for this one.
MalformedEnvelopeIsDropped ==
  [][\A raw \in RouterFrames :
       (FrameStepOf(raw) /\ MalformedEnvelope(raw)) =>
          /\ server'.out.dgram = <<>>
          /\ ~server'.out.called
          /\ server'.out.ret = "none"
          /\ ~server'.out.thrown
          /\ Quiet(server') = Quiet(server)
          /\ server'.wsSent = server.wsSent
          /\ \A later \in RouterFrames : messageEnabled(server', later, FALSE, 0)]_vars

\* A payload that is not an envelope at all (not JSON, or JSON null) has
\* made the handler's catch block run, while all three channels were ready.
MalformedEnvelopeCaught ==
  /\ server.out.log = "processing error"
  /\ server.connectedClients > 0
  /\ \A d \in Devices : server.oscConnected[d] /\ server.oscUDPPorts[d] # 0
  /\ server.out.dgram = <<>>

\* An envelope the router accepts: an object of normal size with a string
\* for an address and an array for args.
AcceptedEnvelope(raw) ==
  /\ raw.bytes <= MAX_PAYLOAD
  /\ raw.chars <= MAX_MESSAGE_SIZE
  /\ ~MalformedEnvelope(raw)
  /\ raw.msg.address.s # <<>>

\* The numbers of an argument list, in their order, as OSC floats.
IsNumber(v) == v.t = "number"
NumbersOf(args) ==
  LET nums == SelectSeq(args, IsNumber)
  IN [i \in 1..Len(nums) |-> [type |-> "f", value |-> nums[i].n]]

\* The channel the message of the step went to.
ChannelWasReady(raw) ==
  LET d == server'.out.dev
  IN server.oscConnected[d] /\ server.oscUDPPorts[d] # 0

\* C14: the arguments forwarded for an accepted envelope are exactly those
\* elements of args that are finite numbers, in their order, and the
\* message is forwarded and not rejected ([1,2,"bad",4,5,6] gives
\* [1,2,4,5,6]).
ForwardsExactlyTheNumbers ==
  [][\A raw \in RouterFrames :
       (FrameStepOf(raw) /\ AcceptedEnvelope(raw) /\ ChannelWasReady(raw)) =>
          /\ server'.out.ret = "true"
          /\ Len(server'.out.dgram) = 1
          /\ server'.out.dgram[1].msg.args = NumbersOf(raw.msg.args)]_vars

\* The number of arguments the address of an envelope requires.
RequiredArity(address) == IF StartsWith(address, PrefixController) THEN 7 ELSE 6

\* C15: a message whose argument count after the numeric filtering is not
\* the one its address requires (6 for the HMD, 7 for a controller) is
\* dropped: no datagram is emitted for it.
WrongArityIsDropped ==
  [][\A raw \in RouterFrames :
       (/\ FrameStepOf(raw)
        /\ AcceptedEnvelope(raw)
        /\ Len(validArgs(raw.msg.args)) # RequiredArity(raw.msg.address.s)) =>
          server'.out.dgram = <<>>]_vars

\* The channel an address belongs to, by its first characters, and the
\* channels' ports.
ChannelOfPrefix(a) ==
  IF Len(a) >= 4 /\ SubSeq(a, 1, 4) = <<"/", "h", "m", "d">> THEN "HMD"
  ELSE IF Len(a) >= 12 /\ SubSeq(a, 1, 12) = PrefixController \o <<"0">> THEN "CONTROLLER0"
  ELSE IF Len(a) >= 12 /\ SubSeq(a, 1, 12) = PrefixController \o <<"1">> THEN "CONTROLLER1"
  ELSE "HMD"

PortOfChannel(d) ==
  CASE d = "HMD" -> 7400
    [] d = "CONTROLLER0" -> 7401
    [] d = "CONTROLLER1" -> 7402

Over512BytesIsDiscarded ==
  [][\A raw \in RouterFrames :
       (FrameStepOf(raw) /\ raw.bytes > 512) =>
          /\ server'.out.ret = "none"
          /\ server'.out.dgram = <<>>
          /\ server'.wsSent = server.wsSent
          /\ server'.connectedClients = server.connectedClients]_vars

(***************************************************************************)
(* Properties of the samplers.                                             *)
(***************************************************************************)
\* C18: the two samplers never overlap.  Whenever the frame-driven loop is
\* installed the interval of the clock-driven sampler is cleared, and no
\* tick of the clock-driven sampler publishes while the loop is installed,
\* whatever the order of session starts, failed starts and session ends.
SamplersNeverOverlap ==
  [][/\ client'.animationLoop = "xr" => ~client'.dataSampleInterval
     /\ (client'.tick.kind = "clock" /\ client'.tick.wrote # <<>>)
          => (client.animationLoop # "xr" /\ client'.animationLoop # "xr")]_vars

\* The frame-driven loop is installed and has published, the interval is
\* cleared, and the clock-driven sampler had published before the session.
FrameLoopPublishesAlone ==
  /\ client.animationLoop = "xr"
  /\ ~client.dataSampleInterval
  /\ client.tick.kind = "frame"
  /\ client.tick.wrote # <<>>
  /\ client.written > Len(client.tick.wrote)

\* A frame-driven tick has passed the throttle gate, and controller i had no
\* grip pose in it (its display was handed zeros).
GatedFrameWithoutGrip(C, i) ==
  /\ C.tick.kind = "frame"
  /\ C.tick.gate
  /\ C.tick.shown[StreamOf(i)].pos = "zero"

\* The wire messages of the tick for controller i.
WroteFor(C, i) ==
  {k \in 1..Len(C.tick.wrote) : C.tick.wrote[k].address = AddrOf(StreamOf(i))}

\* C19 as stated: in a frame-driven tick that passes the throttle gate and
\* in which a controller has no grip pose, a wire message with zeros and an
\* unpressed button is sent for it, and its button display shows "Released".
AbsentGripSendsZeros ==
  \A i \in {0, 1} :
    GatedFrameWithoutGrip(client, i) =>
      /\ \E k \in WroteFor(client, i) :
           /\ client.tick.wrote[k].pose = "zero"
           /\ ~client.tick.wrote[k].btn
           /\ client.tick.wrote[k].nargs = 7
      /\ client.tick.shown[StreamOf(i)].btn = "Released"

\* C19, amended: in such a tick no wire message at all is sent for that
\* controller; its display is given zeros and shows "Released".
AbsentGripSendsNothing ==
  \A i \in {0, 1} :
    GatedFrameWithoutGrip(client, i) =>
      /\ WroteFor(client, i) = {}
      /\ client.tick.shown[StreamOf(i)] = [pos |-> "zero", btn |-> "Released"]

\* A tick that passed the gate published the headset and controller 1 and
\* had no grip pose for controller 0.
OneControllerWithoutGrip ==
  /\ GatedFrameWithoutGrip(client, 0)
  /\ Len(client.tick.wrote) = 2
  /\ WroteFor(client, 1) # {}
  /\ client.tick.shown["ctrl1"].pos = "tracked"
  /\ client.tick.shown["ctrl0"].btn = "Released"

\* The stream of a wire message.
StreamOfAddress(a) ==
  IF a = AddrHmd THEN "hmd" ELSE IF a = AddrController0 THEN "ctrl0" ELSE "ctrl1"

\* C20: a pose an XR frame reported is transmitted only while it is live.
\* In the frame-driven regime a tick transmits a tracked pose of a stream
\* only if the frame has a pose for that stream; in the clock-driven regime,
\* once the session has ended, no tick transmits a tracked pose again.
StalePoseIsNotRetransmitted ==
  \A k \in 1..Len(client.tick.wrote) :
    client.tick.wrote[k].pose = "tracked" =>
      /\ client.tick.kind = "frame"
      /\ client.tick.shown[StreamOfAddress(client.tick.wrote[k].address)].pos = "tracked"

(***************************************************************************)
(* Properties of the wire format.                                          *)
(***************************************************************************)
\* C21: every wire message the client writes has exactly 6 args when its
\* address is /hmd/pose and exactly 7 when it is /controller0/pose or
\* /controller1/pose, the seventh being 1 if the button is pressed (the
\* tick displays "Pressed" for the controller) and 0 otherwise; all args
\* are finite numbers.
WireMessagesHaveFixedArgs ==
  \A k \in 1..Len(client.tick.wrote) :
    LET m == client.tick.wrote[k]
        st == StreamOfAddress(m.address)
    IN /\ m.address \in {AddrHmd, AddrController0, AddrController1}
       /\ \A i \in 1..Len(m.args) : m.args[i].t = "number"
       /\ m.address = AddrHmd => Len(m.args) = 6
       /\ m.address # AddrHmd =>
            /\ Len(m.args) = 7
            /\ m.args[7].n = IF client.tick.shown[st].btn = "Pressed" THEN 1 ELSE 0

\* A frame tick has written the headset's message and the message of a
\* controller with its button pressed.
PressedControllerWritten ==
  /\ client.tick.kind = "frame"
  /\ \E k \in 1..Len(client.tick.wrote) : client.tick.wrote[k].address = AddrHmd
  /\ \E k \in 1..Len(client.tick.wrote) :
       /\ client.tick.wrote[k].address = AddrController1
       /\ client.tick.wrote[k].args[7] = Num(1)
  /\ client.tick.shown["ctrl1"].btn = "Pressed"

\* C22 as stated: normalizeAngle returns a value congruent to its input
\* modulo 360 in the half-open range (-180, 180]; 270 gives -90.
NormalizedIntoHalfOpenRange ==
  client.returned =>
    /\ (client.result - client.angle) % 360 = 0
    /\ client.result > 0 - 180
    /\ client.result <= 180
    /\ client.angle = 270 => client.result = 0 - 90

\* C22, amended: the range is the closed range [-180, 180]: an input of
\* -180, or -180 less a multiple of 360, comes back as -180 and not as 180;
\* every other input comes back in (-180, 180], and 270 gives -90.
NormalizedIntoClosedRange ==
  client.returned =>
    /\ (client.result - client.angle) % 360 = 0
    /\ client.result >= 0 - 180
    /\ client.result <= 180
    /\ client.angle = 270 => client.result = 0 - 90
    /\ client.result = 0 - 180 <=>
         (client.angle <= 0 - 180 /\ (client.angle + 180) % 360 = 0)

\* -540 has been normalized, to -180.
MinusFiveFortyNormalized ==
  /\ client.returned
  /\ client.angle = 0 - 540
  /\ client.result = 0 - 180

\* C23: each successful sendOSC emits exactly one datagram, on the port of
\* the device it selected, with the address exactly as received (also when
\* it matched no known prefix) and one argument of type 'f' for each
\* element of the filtered argument list, in the same order.
OneDatagramPerSend ==
  [][\A raw \in RouterFrames :
       (FrameStepOf(raw) /\ server'.out.ret = "true") =>
          LET kept == SelectSeq(raw.msg.args, isFiniteNumber)
          IN /\ Len(server'.out.dgram) = 1
             /\ server'.out.dgram[1].port = OSC_PORTS[server'.out.dev]
             /\ server'.out.dgram[1].msg.address = raw.msg.address.s
             /\ Len(server'.out.dgram[1].msg.args) = Len(kept)
             /\ \A i \in 1..Len(kept) :
                  /\ server'.out.dgram[1].msg.args[i].type = "f"
                  /\ server'.out.dgram[1].msg.args[i].value = parseFloat(kept[i])
             /\ server'.oscMessageCount = server.oscMessageCount + 1]_vars

\* A controller message of eight elements, five of them numeric, has left
\* as one datagram of five floats.
FilteredListSentInOrder ==
  /\ server.out.ret = "true"
  /\ Len(server.out.dgram) = 1
  /\ server.out.dgram[1].port = 7401
  /\ server.out.dgram[1].msg.address = AddrController0
  /\ Len(server.out.dgram[1].msg.args) = 5
  /\ server.out.dgram[1].msg.args[2].value = 0 - 7
  /\ server.out.log = "args filtered"

(***************************************************************************)
(* Properties of the diagnostic counters.                                  *)
(***************************************************************************)
\* A server without its diagnostics: the counters and the last error text
\* set to their initial values.
WithoutCounters(S) ==
  [S EXCEPT !.oscMessageCount = 0,
            !.oscErrorCount = 0,
            !.lastOSCError = "null",
            !.messageStats = [k \in StatKeys |-> 0],
            !.out = NoOut]

\* Both servers handle the same frame, and the send throws in both or in
\* neither.
SameMessageInBoth ==
  \E raw \in Frames, sendThrows \in BOOLEAN :
    /\ server' = wsMessage(Quiet(server), raw, sendThrows)
    /\ twin' = wsMessage(Quiet(twin), raw, sendThrows)

\* C24: the diagnostic counters have no effect on control flow.  Two
\* servers that differ only in the values of the counters and handle the
\* same message forward the same datagram, return the same, and make the
\* same close, reconnect and open transitions: they still differ only in
\* the counters afterwards.
CountersDoNotSteer ==
  [][(SameMessageInBoth /\ WithoutCounters(server) = WithoutCounters(twin)) =>
        /\ WithoutCounters(server') = WithoutCounters(twin')
        /\ server'.out.ret = twin'.out.ret
        /\ server'.out.dgram = twin'.out.dgram]_vars

(***************************************************************************)
(* C25: when the listening port cannot be bound at startup the process     *)
(* exits, as it does when the key or the certificate cannot be loaded.     *)
(***************************************************************************)
BindFailureStep == server.phase = "binding" /\ server'.phase = "unbound"

BindFailureAbortsStartup ==
  [][(BindFailureStep \/ server'.out.log = "ssl error") => server'.phase = "exited"]_vars

\* What the code does when the credentials cannot be loaded.
CredentialFailureAbortsStartup ==
  [][server'.out.log = "ssl error" => server'.phase = "exited"]_vars

\* The process whose bind failed has a device channel ready.
UnboundProcessRunsOn ==
  /\ server.phase = "unbound"
  /\ \E d \in Devices : server.oscConnected[d]

(***************************************************************************)
(* C26: on SIGINT every device channel is closed before the process exits: *)
(* when the process has exited on a SIGINT no device channel is open.      *)
(***************************************************************************)
ChannelOpen(S, p) == S.ports[p].st \in {"opening", "ready"}

ExitedOnSigint == server.phase = "exited" /\ server.out.log # "ssl error"

NoChannelOpenAtExit ==
  ExitedOnSigint => \A p \in 1..MaxPorts : ~ChannelOpen(server, p)

(***************************************************************************)
(* C27: in a frame-driven tick that passes the throttle gate every stream  *)
(* with a live pose in that tick is sent, and the shared timestamp is      *)
(* advanced to the tick's time once for the whole tick: no stream of the   *)
(* tick is held back by the send of an earlier one.                        *)
(***************************************************************************)
SentIn(C, st) == \E k \in 1..Len(C.tick.wrote) : C.tick.wrote[k].address = AddrOf(st)

EveryLiveStreamIsSent ==
  (client.tick.kind = "frame" /\ client.tick.gate) =>
    /\ \A st \in Streams : client.tick.shown[st].pos = "tracked" => SentIn(client, st)
    /\ client.lastOSCSendTime = client.now

\* A tick that passed the gate sent the headset and both controllers.
ThreeStreamsSentInOneTick ==
  /\ client.tick.kind = "frame"
  /\ client.tick.gate
  /\ \A st \in Streams : client.tick.shown[st].pos = "tracked" /\ SentIn(client, st)
  /\ client.lastOSCSendTime = client.now

(***************************************************************************)
(* C28: in every reachable state lastOSCSendTime is the time of the most   *)
(* recent tick, of either sampler, that wrote at least one wire message to *)
(* the socket, or its initial value if no tick has written yet.            *)
(***************************************************************************)
TimestampIsLastTransmission ==
  client.lastOSCSendTime =
    IF client.lastTransmit = ClientStart.lastTransmit
    THEN ClientStart.lastOSCSendTime
    ELSE client.lastTransmit

(***************************************************************************)
(* C29: in every reachable state of the client at most one WebSocket       *)
(* created by initWebSocket is CONNECTING or OPEN, and at most one         *)
(* reconnect timer is pending, however close events, error events and      *)
(* timer firings interleave.                                               *)
(***************************************************************************)
LiveSockets(C) == {id \in 1..MaxSockets : C.sockets[id].rs \in {"CONNECTING", "OPEN"}}

PendingReconnects(C) == {k \in 1..Len(C.timers) : C.timers[k].fn = "initWebSocket"}

OneSocketOneReconnectTimer ==
  /\ Cardinality(LiveSockets(client)) <= 1
  /\ Cardinality(PendingReconnects(client)) <= 1

\* The socket of a later attempt is open, alone, after an earlier socket was
\* closed and its reconnect timer ran out.
ReconnectedAfterAClose ==
  /\ client.attempts >= 2
  /\ LiveSockets(client) = {client.socket}
  /\ client.sockets[client.socket].rs = "OPEN"
  /\ PendingReconnects(client) = {}

(***************************************************************************)
(* C30: oscConnected[d] records the state of d's current port only: an     *)
(* error or close event delivered from a port that reconnectOSC has        *)
(* dropped changes no connected flag, and so the flag of a device whose    *)
(* current port is ready and has had no error stays true.                  *)
(***************************************************************************)
Dropped(S, p) == S.ports[p].st = "closing" /\ ~Referenced(S, p)

EventOfDroppedPort(p) ==
  /\ Dropped(server, p)
  /\ server' \in {lateError(Quiet(server), p), onClose(Quiet(server), p)}

DroppedPortsChangeNoFlag ==
  [][\A p \in 1..MaxPorts :
       EventOfDroppedPort(p) => server'.oscConnected = server.oscConnected]_vars

(***************************************************************************)
(* C31: a device channel that has become Ready is torn down only for an    *)
(* error that happened after it became Ready: a reconnect timer left over  *)
(* from an earlier error never closes a channel that is ready and has had  *)
(* no error since (its connected flag is still set).                       *)
(***************************************************************************)
ReadyAndConnected(S, d) ==
  /\ S.oscUDPPorts[d] # 0
  /\ S.ports[S.oscUDPPorts[d]].st = "ready"
  /\ S.oscConnected[d]

ReconnectStep(k) ==
  reconnectEnabled(server, k) /\ server' = reconnectTimer(Quiet(server), k)

ReadyChannelOutlivesOldTimers ==
  [][\A k \in 1..MaxTimers :
       ReconnectStep(k) => ~ReadyAndConnected(server, server.timers[k].dev)]_vars

(***************************************************************************)
(* C32: once the SIGINT handler has run, no device channel is created or   *)
(* opened again: no step of the closing process gives a device a port      *)
(* handle it did not have or brings a new port into being.                 *)
(***************************************************************************)
NoChannelCreatedWhileClosing ==
  [][server.phase = "closing" =>
       /\ \A d \in Devices : server.oscUDPPorts[d] = 0 => server'.oscUDPPorts[d] = 0
       /\ \A p \in 1..MaxPorts : server.ports[p].st = "none" => server'.ports[p].st = "none"
    ]_vars

(***************************************************************************)
(* C33: in every reachable state of the client at most one clock-driven    *)
(* sampling interval is running, it is the one dataSampleInterval names    *)
(* (no running timer whose handle was lost), and the handler of a session  *)
(* end leaves exactly one running.                                         *)
(***************************************************************************)
SessionEndStep == client.xrSession /\ ~client'.xrSession

StatKeyOf(device) ==
  IF device = "CONTROLLER0" THEN "controller0"
  ELSE IF device = "CONTROLLER1" THEN "controller1"
  ELSE "hmd"

SumOfStats(S) ==
  S.messageStats["hmd"] + S.messageStats["controller0"] + S.messageStats["controller1"]

CountersFollowTheChannel ==
  [][/\ server'.out.ret = "true" =>
          server'.messageStats =
            [server.messageStats EXCEPT ![StatKeyOf(server'.out.dev)] = @ + 1]
     /\ server'.out.ret = "false" =>
          /\ server'.messageStats = server.messageStats
          /\ server'.oscMessageCount = server.oscMessageCount
     /\ server'.oscMessageCount = SumOfStats(server')]_vars
====
